---------------------------- MODULE Spec2Model ----------------------------
(***************************************************************************)
(* ProfileFed (queerdevs/profilefed): the verifying client of client.go,   *)
(* its default in-memory pubkey store, and the byte-level facts about      *)
(* Ed25519 signatures and base64/JSON decoding that the client relies on.  *)
(*                                                                         *)
(* Byte strings are records tagged by `kind`: a signature is              *)
(* [kind |-> "sig", signer, msg], a response body is a record of another   *)
(* kind.  A body is never a well-formed 64-byte signature and a signature  *)
(* is never a body, so ed25519.Verify called with its message and          *)
(* signature arguments exchanged answers false.                            *)
(***************************************************************************)
EXTENDS Naturals, Sequences, FiniteSets, TLC

(***************************************************************************)
(* Bounds of the model.                                                    *)
(***************************************************************************)
MaxPrevNames == 2      \* longest previous_names list a server-info declares
MaxPrevSigs == 1       \* most X-ProfileFed-Previous headers on one response
MaxLinks == 2          \* most links in a WebFinger descriptor
MaxPrevKeys == 2       \* most entries of ServerInfoHandler.PreviousKeys

Procs == {1, 2}        \* goroutines that may run a lookup
Hosts == {"a.example", "b.example", "c.example"}
PrivKeys == {"SK1", "SK2"}
PubKeys == {"PK1", "PK2"}          \* 32-byte Ed25519 public keys
None == "none"                     \* absent map entry / nil value

Pub(sk) == IF sk = "SK1" THEN "PK1" ELSE "PK2"

(***************************************************************************)
(* Sequences over S of length at most n.                                   *)
(***************************************************************************)
SeqUpTo(S, n) == UNION {[1..k -> S] : k \in 0..n}

Range(s) == {s[i] : i \in 1..Len(s)}

(***************************************************************************)
(* Ed25519.  Sign is what the handlers call; Verify is what the client     *)
(* calls.  Every public key of the model is 32 bytes long (Verify's panic  *)
(* on a key of another length is outside the model).                       *)
(***************************************************************************)
Sign(sk, message) == [kind |-> "sig", signer |-> Pub(sk), msg |-> message]

Verify(publicKey, message, sig) ==
    /\ sig.kind = "sig"
    /\ sig.signer = publicKey
    /\ sig.msg = message

(***************************************************************************)
(* base64.StdEncoding: EncodeToString wraps the bytes, DecodeString        *)
(* unwraps them and fails on text that is not base64.                      *)
(***************************************************************************)
EncodeToString(bytes) == <<"b64", bytes>>
NotBase64 == <<"raw", "!!">>
DecodeOk(str) == str[1] = "b64"
DecodeString(str) == str[2]

(***************************************************************************)
(* Error values returned by the client.                                    *)
(***************************************************************************)
Nil == "nil"
ErrSignatureMismatch == "message does not match server signature"
ErrNoSignature == "response contains no signature"
ErrUnsupported == "server does not support the profilefed protocol"
ErrWebFinger == "webfinger lookup failed"
ErrURL == "url parse error"
ErrStore == "pubkey store error"
ErrTransport == "http transport error"
ErrStatus == "status not 200"
ErrBase64 == "illegal base64 data"
ErrJSON == "json error"

(***************************************************************************)
(* WebFinger descriptors as the client consumes them: a list of links,     *)
(* each with a type and an href.  An href is either the URL of a profile   *)
(* endpoint on some host or a string url.Parse rejects.                    *)
(***************************************************************************)
PfdType == "application/x-pfd+json"
HtmlType == "text/html"
BadHref == <<"%zz">>
Href(h) == <<"http", h>>
Hrefs == {Href(h) : h \in Hosts} \cup {BadHref}
Links == [type : {PfdType, HtmlType}, href : Hrefs]
WebFingerDescriptors == SeqUpTo(Links, MaxLinks)

ParseOk(href) == Len(href) = 2
ParseHost(href) == href[2]

RECURSIVE LinkByType(_, _)
LinkByType(links, linkType) ==
    IF links = << >> THEN [ok |-> FALSE, href |-> BadHref]
    ELSE IF Head(links).type = linkType
         THEN [ok |-> TRUE, href |-> Head(links).href]
         ELSE LinkByType(Tail(links), linkType)

(***************************************************************************)
(* Profile response bodies and what json.Unmarshal makes of them.  A       *)
(* "desc" body is one descriptor object, a "map" body is the all=1 object  *)
(* {id: descriptor}, "garbage" is not JSON.  The role is kept as the only  *)
(* descriptor field the client treats specially.                           *)
(***************************************************************************)
Roles == {"", "admin"}
Garbage == [kind |-> "garbage", role |-> ""]
ProfileBodies ==
    [kind : {"desc"}, role : Roles] \cup {[kind |-> "map", role |-> "admin"], Garbage}
OtherBody == [kind |-> "other", role |-> ""]
InfoBody == [kind |-> "info", role |-> ""]

NoData == [kind |-> "nodata", role |-> ""]
NoSig == [kind |-> "nosig", signer |-> None, msg |-> NoData]
ZeroDescriptor == [kind |-> "desc", role |-> ""]
EmptyMap == [kind |-> "map", role |-> None]
NilResult == [kind |-> "nil", role |-> None]

\* The signatures a server may put in a signature header of a response
\* whose body is `body`: by either key over that body, or over other bytes.
SigsOver(body) == {Sign(sk, body) : sk \in PrivKeys} \cup {Sign("SK1", OtherBody)}

\* The dest argument the public operations hand to lookup: a pointer to a
\* Descriptor, a pointer to a map (LookupAll) or the map itself
\* (LookupAllWebFinger).
Dests == {"*Descriptor", "*map", "map"}

OutOf(dst) == IF dst = "*Descriptor" THEN ZeroDescriptor ELSE EmptyMap

\* json.Unmarshal(data, dest): the error and the value left in dest.
Unmarshal(body, dst) ==
    CASE body.kind = "garbage" -> [err |-> ErrJSON, dest |-> OutOf(dst)]
      [] body.kind # "garbage" /\ dst = "map"
           -> [err |-> ErrJSON, dest |-> OutOf(dst)]
      [] dst = "*Descriptor" /\ body.kind = "desc"
           -> [err |-> Nil, dest |-> [kind |-> "desc", role |-> body.role]]
      [] dst = "*Descriptor" /\ body.kind = "map"
           -> [err |-> Nil, dest |-> ZeroDescriptor]
      [] dst = "*map" /\ body.kind = "map"
           -> [err |-> Nil, dest |-> [kind |-> "map", role |-> body.role]]
      [] dst = "*map" /\ body.kind = "desc"
           -> [err |-> ErrJSON, dest |-> EmptyMap]

(***************************************************************************)
(* State.                                                                  *)
(*   store   defaultMap of DefaultClient: server name -> public key        *)
(*   lk      per goroutine, the locals of the lookup call it is running,   *)
(*           its position, and history fields (reqs, saves, store0, held,  *)
(*           unattested, cont, self) that record what the call has done    *)
(*   lastOk  host and verifying key of the most recent lookup, when it     *)
(*           succeeded and the next lookup is for the same host            *)
(*   sv      a SavePubkey call on the default store made on its own: its   *)
(*           arguments, its position, and the store as it was at the call  *)
(*   rd      a goroutine calling GetPubkey twice while that call runs      *)
(*   srv     a server: the configuration of its handlers and the response  *)
(*           to the last request one of them served                        *)
(*   lib     the arguments and results of the library functions that touch *)
(*           no store and no server                                        *)
(***************************************************************************)
VARIABLES store, lk, lastOk, sv, rd, srv, lib

vars == <<store, lk, lastOk, sv, rd, srv, lib>>

EmptyStore == [h \in Hosts |-> None]

NoLast == [host |-> None, key |-> None]

Idle ==
    [pc |-> "idle", all |-> FALSE, dst |-> "*Descriptor", host |-> None,
     pubkey |-> None, pubkeySaved |-> FALSE, newPubkey |-> None,
     data |-> NoData, sig |-> NoSig,
     names |-> << >>, serverName |-> None, sweep |-> << >>, stage |-> "none",
     err |-> Nil, dest |-> NilResult,
     reqs |-> << >>, saves |-> 0, store0 |-> EmptyStore,
     held |-> {}, unattested |-> {}, cont |-> FALSE, self |-> FALSE]

IdleSaver == [pc |-> "idle", name |-> None, names |-> << >>, sweep |-> << >>,
              key |-> None, before |-> EmptyStore]
IdleReader == [pc |-> "idle", name1 |-> None, first |-> None,
               name2 |-> None, second |-> None]

FailAfterProfile(l, e) ==
    [l EXCEPT !.pc = "done", !.err = e, !.reqs = Append(@, "profile")]
\* return err
Fail(l, e) == [l EXCEPT !.pc = "done", !.err = e]

NoServer == [pc |-> "none"]
NoCall == [pc |-> "none"]

\* A fresh DefaultClient with nothing in flight.
InitClient ==
    /\ store = EmptyStore
    /\ lk = [p \in Procs |-> Idle]
    /\ lastOk = NoLast
    /\ sv = IdleSaver
    /\ rd = IdleReader

Init ==
    /\ InitClient
    /\ srv = NoServer
    /\ lib = NoCall

(***************************************************************************)
(* The six public operations and the head of Client.lookup: find the       *)
(* profile link, parse its URL.  reqs lists the requests lookup itself     *)
(* issues, so the WebFinger resolve of the wrappers is not in it.          *)
(***************************************************************************)
\* lookup(wfdesc, id, all, dest).  The id only changes the query string of
\* the profile GET, on which no modelled server answer depends.
lookupBegin(p, id, all, dst, wfdesc) ==
    LET pfdLink == LinkByType(wfdesc, PfdType)
        l0 == [Idle EXCEPT !.all = all, !.dst = dst, !.dest = OutOf(dst),
                           !.store0 = store]
    IN  IF ~pfdLink.ok THEN
            /\ lk' = [lk EXCEPT ![p] = Fail(l0, ErrUnsupported)]
            /\ lastOk' = NoLast
        ELSE IF ~ParseOk(pfdLink.href) THEN
            /\ lk' = [lk EXCEPT ![p] = Fail(l0, ErrURL)]
            /\ lastOk' = NoLast
        ELSE
            /\ lk' = [lk EXCEPT ![p] = [l0 EXCEPT !.pc = "get_pubkey",
                                                  !.host = ParseHost(pfdLink.href)]]
            /\ lastOk' = IF lastOk.host = ParseHost(pfdLink.href)
                         THEN lastOk ELSE NoLast

\* webfinger.LookupAcct(resource) failed: the wrapper returns (nil, err).
resolveFails(p, dst) ==
    /\ lk' = [lk EXCEPT ![p] = [Fail(Idle, ErrWebFinger)
                                   EXCEPT !.dst = dst, !.store0 = store]]
    /\ lastOk' = NoLast

Ids == {"", "id1"}

Lookup(p) ==
    /\ lk[p].pc = "idle"
    /\ \/ resolveFails(p, "*Descriptor")
       \/ \E wfdesc \in WebFingerDescriptors :
            lookupBegin(p, "", FALSE, "*Descriptor", wfdesc)
    /\ UNCHANGED <<srv, lib, store, sv, rd>>

LookupID(p) ==
    /\ lk[p].pc = "idle"
    /\ \/ resolveFails(p, "*Descriptor")
       \/ \E wfdesc \in WebFingerDescriptors, id \in Ids :
            lookupBegin(p, id, FALSE, "*Descriptor", wfdesc)
    /\ UNCHANGED <<srv, lib, store, sv, rd>>

LookupAll(p) ==
    /\ lk[p].pc = "idle"
    /\ \/ resolveFails(p, "*map")
       \/ \E wfdesc \in WebFingerDescriptors :
            lookupBegin(p, "", TRUE, "*map", wfdesc)
    /\ UNCHANGED <<srv, lib, store, sv, rd>>

LookupWebFinger(p) ==
    /\ lk[p].pc = "idle"
    /\ \E wfdesc \in WebFingerDescriptors :
         lookupBegin(p, "", FALSE, "*Descriptor", wfdesc)
    /\ UNCHANGED <<srv, lib, store, sv, rd>>

LookupWebFingerID(p) ==
    /\ lk[p].pc = "idle"
    /\ \E wfdesc \in WebFingerDescriptors, id \in Ids :
         lookupBegin(p, id, FALSE, "*Descriptor", wfdesc)
    /\ UNCHANGED <<srv, lib, store, sv, rd>>

LookupAllWebFinger(p) ==
    /\ lk[p].pc = "idle"
    /\ \E wfdesc \in WebFingerDescriptors :
         lookupBegin(p, "", TRUE, "map", wfdesc)
    /\ UNCHANGED <<srv, lib, store, sv, rd>>

(***************************************************************************)
(* pubkey, err := c.GetPubkey(pfdURL.Host)                                 *)
(***************************************************************************)
GetPubkey(serverName) == store[serverName]

GetHostPubkey(p) ==
    /\ lk[p].pc = "get_pubkey"
    /\ LET l == lk[p]
           got == GetPubkey(l.host)
       IN  lk' = [lk EXCEPT ![p] =
                    IF got = None
                    THEN [l EXCEPT !.pc = "first_contact"]
                    ELSE [l EXCEPT !.pc = "fetch", !.pubkey = got,
                                   !.held = {got}]]
    /\ UNCHANGED <<srv, lib, store, lastOk, sv, rd>>

\* A Client whose GetPubkey hook fails with an error other than
\* ErrPubkeyNotFound.
GetPubkeyFails(p) ==
    /\ lk[p].pc = "get_pubkey"
    /\ lk' = [lk EXCEPT ![p] = Fail(lk[p], ErrStore)]
    /\ UNCHANGED <<srv, lib, store, lastOk, sv, rd>>

(***************************************************************************)
(* HTTP responses as the client reads them.  A header value is text: the   *)
(* empty string when the header is absent, base64 text, or text that is    *)
(* not base64.                                                             *)
(***************************************************************************)
NoHeader == <<"empty", "">>
Statuses == {"transport error", "404 Not Found", "200 OK"}

SigHeaders(body) ==
    {NoHeader, NotBase64} \cup {EncodeToString(s) : s \in SigsOver(body)}
PrevHeaders(body) ==
    {NotBase64} \cup {EncodeToString(Sign(sk, body)) : sk \in PrivKeys}
PubkeyStrings == {NotBase64} \cup {EncodeToString(k) : k \in PubKeys}

\* checkResp
checkResp(status) == IF status = "200 OK" THEN Nil ELSE ErrStatus

\* getSignature
getSignature(sigStr) ==
    IF sigStr[1] = "empty" THEN [err |-> ErrNoSignature, sig |-> NoSig]
    ELSE IF ~DecodeOk(sigStr) THEN [err |-> ErrBase64, sig |-> NoSig]
    ELSE [err |-> Nil, sig |-> DecodeString(sigStr)]

\* getPrevSignatures: the decodable X-ProfileFed-Previous values, in order
\* A getPrevSignatures that gives up at the first undecodable value.
RECURSIVE getPrevSignaturesUntilInvalid(_)
getPrevSignaturesUntilInvalid(sigStrs) ==
    IF sigStrs = << >> THEN << >>
    ELSE IF ~DecodeOk(Head(sigStrs)) THEN << >>
    ELSE <<DecodeString(Head(sigStrs))>>
           \o getPrevSignaturesUntilInvalid(Tail(sigStrs))
RECURSIVE getPrevSignatures(_)
getPrevSignatures(sigStrs) ==
    IF sigStrs = << >> THEN << >>
    ELSE IF ~DecodeOk(Head(sigStrs)) THEN getPrevSignatures(Tail(sigStrs))
    ELSE <<DecodeString(Head(sigStrs))>> \o getPrevSignatures(Tail(sigStrs))

\* The part of getServerInfo that can fail: transport, status, signature.
getServerInfoErr(status, sigStr) ==
    IF status = "transport error" THEN ErrTransport
    ELSE IF checkResp(status) # Nil THEN ErrStatus
    ELSE getSignature(sigStr).err

(***************************************************************************)
(* The rename audit of first contact, as the loops are written: the break  *)
(* after a successful Verify under X-ProfileFed-Sig leaves the loop over   *)
(* the previous names; the break inside the loop over prevSigs leaves      *)
(* only that inner loop, after which the function returns                  *)
(* ErrSignatureMismatch.                                                   *)
(***************************************************************************)
RECURSIVE auditPreviousNames(_, _, _, _)
auditPreviousNames(previousNames, body, sig, prevSigs) ==
    IF previousNames = << >> THEN Nil
    ELSE LET pk == GetPubkey(Head(previousNames))
             innerBreak == \E i \in 1..Len(prevSigs) : Verify(pk, body, prevSigs[i])
         IN  IF pk = None
             THEN auditPreviousNames(Tail(previousNames), body, sig, prevSigs)
             ELSE IF Verify(pk, body, sig) THEN Nil
             ELSE IF innerBreak THEN ErrSignatureMismatch
             ELSE ErrSignatureMismatch

\* History: whether the key stored for a previous name attests the
\* server-info body, by X-ProfileFed-Sig or by some X-ProfileFed-Previous.
Attests(pk, body, sig, prevSigs) ==
    \/ Verify(pk, body, sig)
    \/ \E i \in 1..Len(prevSigs) : Verify(pk, body, prevSigs[i])

Unattested(previousNames, body, sig, prevSigs) ==
    {n \in Range(previousNames) :
        store[n] # None /\ ~Attests(store[n], body, sig, prevSigs)}

(***************************************************************************)
(* First contact: fetch server-info, audit the previous names, decode the  *)
(* declared key; SavePubkey follows as its own steps.                      *)
(***************************************************************************)
FirstContact(p) ==
    /\ lk[p].pc = "first_contact"
    /\ LET l == [lk[p] EXCEPT !.reqs = Append(@, "server"), !.stage = "first"]
       IN  \E status \in Statuses, sigStr \in SigHeaders(InfoBody) :
             IF getServerInfoErr(status, sigStr) # Nil
             THEN lk' = [lk EXCEPT ![p] = Fail(l, getServerInfoErr(status, sigStr))]
             ELSE
               \/ lk' = [lk EXCEPT ![p] = Fail(l, ErrJSON)]
               \/ \E prevStrs \in SeqUpTo(PrevHeaders(InfoBody), MaxPrevSigs),
                     previousNames \in SeqUpTo(Hosts, MaxPrevNames) :
                    LET sig == getSignature(sigStr).sig
                        prevSigs == getPrevSignatures(prevStrs)
                        audit == auditPreviousNames(previousNames, InfoBody, sig, prevSigs)
                        la == [l EXCEPT !.unattested =
                                 Unattested(previousNames, InfoBody, sig, prevSigs)]
                    IN  IF audit # Nil
                        THEN lk' = [lk EXCEPT ![p] = Fail(la, audit)]
                        ELSE \E pubkeyStr \in PubkeyStrings :
                               IF ~DecodeOk(pubkeyStr)
                               THEN lk' = [lk EXCEPT ![p] = Fail(la, ErrBase64)]
                               ELSE \E serverName \in Hosts :
                                      lk' = [lk EXCEPT ![p] =
                                            [la EXCEPT !.pc = "save",
                                                       !.names = previousNames,
                                                       !.serverName = serverName,
                                                       !.pubkey = DecodeString(pubkeyStr)]]
    /\ UNCHANGED <<srv, lib, store, lastOk, sv, rd>>

\* A Client whose GetPubkey hook fails inside the audit loop.
FirstContactGetFails(p) ==
    /\ lk[p].pc = "first_contact"
    /\ lk' = [lk EXCEPT ![p] = [Fail(lk[p], ErrStore)
                                   EXCEPT !.reqs = Append(@, "server"),
                                          !.stage = "first"]]
    /\ UNCHANGED <<srv, lib, store, lastOk, sv, rd>>

(***************************************************************************)
(* return json.Unmarshal(data, dest), and the wrapper's return of out.     *)
(***************************************************************************)
Finish(l) ==
    LET r == Unmarshal(l.data, l.dst)
    IN  [l EXCEPT !.pc = "done", !.err = r.err, !.dest = r.dest]

(***************************************************************************)
(* SavePubkey of DefaultClient: Store, then one Delete per previous name.  *)
(***************************************************************************)
MapStoreEverywhere(m, name, pubkey) == [h \in Hosts |-> pubkey]
MapStore(m, name, pubkey) == [m EXCEPT ![name] = pubkey]
MapDeleteNothing(m, name) == m
MapDelete(m, name) == [m EXCEPT ![name] = None]

SaveKey(l) == IF l.stage = "first" THEN l.pubkey ELSE l.newPubkey

\* The serverName argument of c.SavePubkey: pfdURL.Host, not the
\* server_name the server-info document declares.
SaveNameDeclared(l) == l.serverName
SaveName(l) == l.host

SaveStore(p) ==
    /\ lk[p].pc = "save"
    /\ store' = MapStore(store, SaveName(lk[p]), SaveKey(lk[p]))
    /\ lk' = [lk EXCEPT ![p] = [@ EXCEPT !.pc = "sweep", !.sweep = lk[p].names,
                                         !.saves = @ + 1,
                                         !.held = @ \cup {SaveKey(lk[p])}]]
    /\ UNCHANGED <<srv, lib, lastOk, sv, rd>>

SaveDelete(p) ==
    /\ lk[p].pc = "sweep"
    /\ lk[p].sweep # << >>
    /\ store' = MapDelete(store, Head(lk[p].sweep))
    /\ lk' = [lk EXCEPT ![p] = [@ EXCEPT !.sweep = Tail(@)]]
    /\ UNCHANGED <<srv, lib, lastOk, sv, rd>>

\* SavePubkey has returned nil.  After first contact the lookup goes on to
\* the profile GET with pubkeySaved set; in the rotation ceremony it
\* re-verifies the profile body under newPubkey and decodes or fails.
SaveReturn(p) ==
    /\ lk[p].pc = "sweep"
    /\ lk[p].sweep = << >>
    /\ LET l == [lk[p] EXCEPT !.names = << >>, !.serverName = None,
                               !.unattested = {}]
       IN  lk' = [lk EXCEPT ![p] =
                    IF l.stage = "first"
                    THEN [l EXCEPT !.pc = "fetch", !.pubkeySaved = TRUE]
                    ELSE IF Verify(l.newPubkey, l.data, l.sig)
                         THEN Finish(l) ELSE Fail(l, ErrSignatureMismatch)]
    /\ UNCHANGED <<srv, lib, store, lastOk, sv, rd>>

\* A Client whose SavePubkey hook returns an error (and stores nothing).
SavePubkeyFails(p) ==
    /\ lk[p].pc = "save"
    /\ lk' = [lk EXCEPT ![p] = [Fail(@, ErrStore) EXCEPT !.saves = @ + 1]]
    /\ UNCHANGED <<srv, lib, store, lastOk, sv, rd>>

(***************************************************************************)
(* The profile GET and the verification of its body under pubkey.          *)
(***************************************************************************)
AfterVerifyUnchecked(l) == Finish(l)
AfterVerifyUnguarded(l) ==
    IF Verify(l.pubkey, l.data, l.sig) THEN Finish(l)
    ELSE [l EXCEPT !.pc = "rotation"]
AfterVerifyAlwaysRotates(l) == [l EXCEPT !.pc = "rotation"]
AfterVerify(l) ==
    IF Verify(l.pubkey, l.data, l.sig) THEN Finish(l)
    ELSE IF l.pubkeySaved THEN Fail(l, ErrSignatureMismatch)
    ELSE [l EXCEPT !.pc = "rotation"]

FetchProfile(p) ==
    /\ lk[p].pc = "fetch"
    /\ LET l == [lk[p] EXCEPT !.reqs = Append(@, "profile")]
       IN  \E status \in Statuses :
             IF status = "transport error"
             THEN lk' = [lk EXCEPT ![p] = Fail(l, ErrTransport)]
             ELSE IF checkResp(status) # Nil
             THEN lk' = [lk EXCEPT ![p] = Fail(l, checkResp(status))]
             ELSE \E body \in ProfileBodies :
                  \E sigStr \in SigHeaders(body) :
                    IF getSignature(sigStr).err # Nil
                    THEN lk' = [lk EXCEPT ![p] = Fail(l, getSignature(sigStr).err)]
                    ELSE lk' = [lk EXCEPT ![p] =
                                 AfterVerify([l EXCEPT !.data = body,
                                                       !.sig = getSignature(sigStr).sig])]
    /\ UNCHANGED <<srv, lib, store, lastOk, sv, rd>>

(***************************************************************************)
(* The rotation ceremony up to SavePubkey: the checks on the re-fetched    *)
(* server-info, in the order and with the arguments the code gives them.   *)
(***************************************************************************)
RotationChecksContinuityOnly(pubkey, newPubkey, serverData, infoSig, sigs) ==
    IF ~\E i \in 1..Len(sigs) : Verify(pubkey, serverData, sigs[i])
    THEN ErrSignatureMismatch ELSE Nil
RotationChecksSkipped(pubkey, newPubkey, serverData, infoSig, sigs) ==
    IF newPubkey = pubkey THEN ErrSignatureMismatch ELSE Nil

RotationChecks(pubkey, newPubkey, serverData, infoSig, sigs) ==
    IF newPubkey = pubkey THEN ErrSignatureMismatch
    ELSE IF ~\E i \in 1..Len(sigs) : Verify(pubkey, serverData, sigs[i])
         THEN ErrSignatureMismatch
    ELSE IF ~Verify(newPubkey, infoSig, serverData) THEN ErrSignatureMismatch
    ELSE Nil

Rotation(p) ==
    /\ lk[p].pc = "rotation"
    /\ LET l == [lk[p] EXCEPT !.reqs = Append(@, "server"), !.stage = "rotation"]
       IN  \E status \in Statuses, sigStr \in SigHeaders(InfoBody) :
             IF getServerInfoErr(status, sigStr) # Nil
             THEN lk' = [lk EXCEPT ![p] = Fail(l, getServerInfoErr(status, sigStr))]
             ELSE
               \/ lk' = [lk EXCEPT ![p] = Fail(l, ErrJSON)]
               \/ \E pubkeyStr \in PubkeyStrings :
                    IF ~DecodeOk(pubkeyStr)
                    THEN lk' = [lk EXCEPT ![p] = Fail(l, ErrBase64)]
                    ELSE \E prevStrs \in SeqUpTo(PrevHeaders(InfoBody), MaxPrevSigs) :
                      LET newPubkey == DecodeString(pubkeyStr)
                          infoSig == getSignature(sigStr).sig
                          sigs == getPrevSignatures(prevStrs)
                          checks == RotationChecks(l.pubkey, newPubkey, InfoBody,
                                                   infoSig, sigs)
                          lr == [l EXCEPT
                                   !.newPubkey = newPubkey,
                                   !.cont = \E i \in 1..Len(sigs) :
                                               Verify(l.pubkey, InfoBody, sigs[i]),
                                   !.self = Verify(newPubkey, InfoBody, infoSig)]
                      IN  IF checks # Nil
                          THEN lk' = [lk EXCEPT ![p] = Fail(lr, checks)]
                          ELSE \E previousNames \in SeqUpTo(Hosts, MaxPrevNames),
                                  serverName \in Hosts :
                                 lk' = [lk EXCEPT ![p] =
                                          [lr EXCEPT !.pc = "save",
                                                     !.names = previousNames,
                                                     !.serverName = serverName]]
    /\ UNCHANGED <<srv, lib, store, lastOk, sv, rd>>

\* The caller takes the result; the goroutine is free for the next call.
Return(p) ==
    /\ lk[p].pc = "done"
    /\ lastOk' = IF lk[p].err = Nil
                 THEN [host |-> lk[p].host, key |-> lk[p].sig.signer]
                 ELSE NoLast
    /\ lk' = [lk EXCEPT ![p] = Idle]
    /\ UNCHANGED <<srv, lib, store, sv, rd>>

LookupStep(p) ==
    \/ Lookup(p) \/ LookupID(p) \/ LookupAll(p)
    \/ LookupWebFinger(p) \/ LookupWebFingerID(p) \/ LookupAllWebFinger(p)
    \/ GetHostPubkey(p) \/ GetPubkeyFails(p)
    \/ FirstContact(p) \/ FirstContactGetFails(p)
    \/ SaveStore(p) \/ SaveDelete(p) \/ SaveReturn(p) \/ SavePubkeyFails(p)
    \/ FetchProfile(p) \/ Rotation(p)
    \/ Return(p)

\* One caller running lookups one after another.
Next == LookupStep(1)

Spec == Init /\ [][Next]_vars

(***************************************************************************)
(* The default store on its own: DefaultClient.SavePubkey called with any  *)
(* arguments, statement by statement, and a second goroutine calling       *)
(* DefaultClient.GetPubkey twice while the save is running.                *)
(***************************************************************************)
SavePubkeyCall ==
    /\ sv.pc = "idle"
    /\ \E serverName \in Hosts, previousNames \in SeqUpTo(Hosts, MaxPrevNames),
          pubkey \in PubKeys :
         sv' = [pc |-> "store", name |-> serverName, names |-> previousNames,
                sweep |-> previousNames, key |-> pubkey, before |-> store]
    /\ UNCHANGED <<srv, lib, store, lk, lastOk, rd>>

\* defaultMap.Store(serverName, pubkey)
SavePubkeyStore ==
    /\ sv.pc = "store"
    /\ store' = MapStore(store, sv.name, sv.key)
    /\ sv' = [sv EXCEPT !.pc = "sweep"]
    /\ UNCHANGED <<srv, lib, lk, lastOk, rd>>

\* one iteration of: for _, prevName := range previousNames { Delete }
SavePubkeyDelete ==
    /\ sv.pc = "sweep"
    /\ sv.sweep # << >>
    /\ store' = MapDelete(store, Head(sv.sweep))
    /\ sv' = [sv EXCEPT !.sweep = Tail(@)]
    /\ UNCHANGED <<srv, lib, lk, lastOk, rd>>

\* return nil
SavePubkeyReturn ==
    /\ sv.pc = "sweep"
    /\ sv.sweep = << >>
    /\ sv' = [sv EXCEPT !.pc = "returned"]
    /\ UNCHANGED <<srv, lib, store, lk, lastOk, rd>>

\* The caller goes on; both goroutines are free for the next round.
SavePubkeyDone ==
    /\ sv.pc = "returned"
    /\ sv' = IdleSaver
    /\ rd' = IdleReader
    /\ UNCHANGED <<srv, lib, store, lk, lastOk>>

\* The reader's first GetPubkey, between the save's call and its return.
GetPubkeyFirst ==
    /\ sv.pc \in {"store", "sweep"}
    /\ rd.pc = "idle"
    /\ \E serverName \in Hosts :
         rd' = [rd EXCEPT !.pc = "once", !.name1 = serverName,
                          !.first = GetPubkey(serverName)]
    /\ UNCHANGED <<srv, lib, store, lk, lastOk, sv>>

\* The reader's second GetPubkey, still before the save returns.
GetPubkeySecond ==
    /\ sv.pc \in {"store", "sweep"}
    /\ rd.pc = "once"
    /\ \E serverName \in Hosts :
         rd' = [rd EXCEPT !.pc = "twice", !.name2 = serverName,
                          !.second = GetPubkey(serverName)]
    /\ UNCHANGED <<srv, lib, store, lk, lastOk, sv>>

NextStore ==
    \/ SavePubkeyCall \/ SavePubkeyStore \/ SavePubkeyDelete
    \/ SavePubkeyReturn \/ SavePubkeyDone
    \/ GetPubkeyFirst \/ GetPubkeySecond

SpecStore == Init /\ [][NextStore]_vars

(***************************************************************************)
(* Properties of the lookup operations (specification Spec).               *)
(***************************************************************************)
VerifiedUnderHeldKey(l) == \E k \in l.held : Verify(k, l.data, l.sig)

\* C1: a lookup returns nil only if the profile body verified, with its
\* X-ProfileFed-Sig, under a key the client holds for the host (read from
\* the store or installed during this lookup); when no such verification
\* succeeded the lookup returns an error and dest holds nothing decoded.
C1_SuccessOnlyVerified ==
    \A p \in Procs :
      LET l == lk[p]
      IN  l.pc = "done" =>
            /\ l.err = Nil => VerifiedUnderHeldKey(l)
            /\ ~VerifiedUnderHeldKey(l) =>
                 l.err # Nil /\ l.dest \in {NilResult, OutOf(l.dst)}

C1_Witness ==
    \E p \in Procs :
      /\ lk[p].pc = "done"
      /\ lk[p].err = Nil
      /\ lk[p].dest = [kind |-> "desc", role |-> "admin"]
      /\ VerifiedUnderHeldKey(lk[p])

\* C2: the rotation ceremony reaches SavePubkey only if newPubkey differs
\* from the stored key, some X-ProfileFed-Previous signature of the
\* server-info body verifies under the stored key, and X-ProfileFed-Sig
\* verifies under newPubkey; a rotation without a continuity signature
\* ends in ErrSignatureMismatch with the store still mapping host to pk.
C2_RotationGuarded ==
    \A p \in Procs :
      LET l == lk[p]
      IN  l.stage = "rotation" =>
            /\ (l.pc \in {"save", "sweep"} \/ l.saves > 0) =>
                  l.newPubkey # l.pubkey /\ l.cont /\ l.self
            /\ (l.pc = "done" /\ l.newPubkey # None /\ ~l.cont) =>
                  /\ l.err = ErrSignatureMismatch
                  /\ GetPubkey(l.host) = l.pubkey
                  /\ l.saves = 0

C2_Witness ==
    \E p \in Procs :
      /\ lk[p].pc = "done"
      /\ lk[p].stage = "rotation"
      /\ lk[p].newPubkey \notin {None, lk[p].pubkey}
      /\ lk[p].self
      /\ ~lk[p].cont
      /\ Verify(lk[p].newPubkey, lk[p].data, lk[p].sig)
      /\ lk[p].err = ErrSignatureMismatch

\* C3: a legitimate rotation is accepted: the stored key is pk, the profile
\* is signed by the new key, and the server-info declares the new key with
\* X-ProfileFed-Sig by the new key and an X-ProfileFed-Previous by pk; then
\* the lookup succeeds and the store maps the host to the new key.
C3_RotationAccepted ==
    \A p \in Procs :
      LET l == lk[p]
      IN  ( /\ l.pc = "done"
            /\ l.stage = "rotation"
            /\ l.newPubkey \notin {None, l.pubkey}
            /\ l.cont
            /\ l.self
            /\ Verify(l.newPubkey, l.data, l.sig)
            /\ l.data.kind = "desc" /\ l.dst = "*Descriptor" )
          => l.err = Nil /\ GetPubkey(l.host) = l.newPubkey

\* C4: a lookup that returns ErrSignatureMismatch leaves the store as it
\* was when the lookup began.
C4_NoMutationOnMismatch ==
    \A p \in Procs :
      (lk[p].pc = "done" /\ lk[p].err = ErrSignatureMismatch)
        => store = lk[p].store0

\* C5: the rename audit is per name: if the server-info lists a previous
\* name whose stored key attests neither X-ProfileFed-Sig nor any
\* X-ProfileFed-Previous, the lookup fails with ErrSignatureMismatch and
\* installs and deletes nothing, wherever that name stands in the list.
C5_AuditPerName ==
    \A p \in Procs :
      lk[p].unattested # {} =>
        /\ lk[p].pc = "done"
        /\ lk[p].err = ErrSignatureMismatch
        /\ store = lk[p].store0

\* C6: a legitimate rename is accepted: a previous name whose stored key
\* verifies X-ProfileFed-Sig or any one X-ProfileFed-Previous counts as
\* attested, so the audit of first contact fails only when some listed
\* name with a stored key is attested by neither.
C6_RenameAccepted ==
    \A p \in Procs :
      ( /\ lk[p].pc = "done"
        /\ lk[p].stage = "first"
        /\ lk[p].reqs = <<"server">>
        /\ lk[p].err = ErrSignatureMismatch )
      => lk[p].unattested # {}

\* C7: a successful single-descriptor lookup returns a descriptor whose
\* role is not empty.
C7_RoleNonEmpty ==
    \A p \in Procs :
      (lk[p].pc = "done" /\ lk[p].err = Nil /\ lk[p].dst = "*Descriptor")
        => lk[p].dest.role # ""

\* C10: when the previous lookup for this host succeeded and the server
\* still uses the key it used then, the lookup issues the profile GET and
\* nothing else: no server-info request and no SavePubkey.
C10_OnlyProfileGet ==
    \A p \in Procs :
      LET l == lk[p]
      IN  ( /\ l.pc = "done"
            /\ l.host # None
            /\ lastOk.host = l.host
            /\ l.pubkey = lastOk.key
            /\ Verify(lastOk.key, l.data, l.sig) )
          => l.reqs = <<"profile">> /\ l.saves = 0

(***************************************************************************)
(* Properties of the default store (specification SpecStore).              *)
(***************************************************************************)
\* C8 as stated: after SavePubkey(name, previousNames, key) has returned,
\* GetPubkey(name) is key and GetPubkey(p) finds nothing for every p of
\* previousNames, also when the list holds name itself or duplicates.
C8_SaveThenGet ==
    sv.pc = "returned" =>
      /\ GetPubkey(sv.name) = sv.key
      /\ \A i \in 1..Len(sv.names) : GetPubkey(sv.names[i]) = None

\* C8: after SavePubkey(name, previousNames, key) has returned,
\* GetPubkey(p) finds nothing for every p of previousNames (duplicates
\* included), and GetPubkey(name) is key when name is not in previousNames.
C8_SaveThenGetAmended ==
    sv.pc = "returned" =>
      /\ \A i \in 1..Len(sv.names) : GetPubkey(sv.names[i]) = None
      /\ sv.name \notin Range(sv.names) => GetPubkey(sv.name) = sv.key

C8_Witness ==
    /\ sv.pc = "returned"
    /\ Len(sv.names) = 2
    /\ sv.names[1] = sv.names[2]
    /\ sv.name # sv.names[1]
    /\ sv.before[sv.names[1]] # None
    /\ sv.before[sv.name] \notin {None, sv.key}
    /\ GetPubkey(sv.name) = sv.key

\* C9: a reader never sees the new name installed and, after that, the
\* mapping of a previous name still present: install and delete-sweep are
\* one step to concurrent GetPubkey calls.
C9_SaveAtomic ==
    ( /\ rd.pc = "twice"
      /\ rd.name1 = sv.name
      /\ sv.before[sv.name] # sv.key
      /\ rd.first = sv.key
      /\ rd.name2 \in Range(sv.names)
      /\ rd.name2 # sv.name )
    => rd.second = None

(***************************************************************************)
(* Further properties of the lookup operations (specification Spec).       *)
(***************************************************************************)
\* C11: when the stored key pk fails to verify the profile and the
\* re-fetched server-info declares a pubkey equal to pk, the lookup returns
\* ErrSignatureMismatch whatever X-ProfileFed-Previous signatures came with
\* it, SavePubkey is not called and the store still maps the host to pk.
C11_UnchangedKeyRejected ==
    \A p \in Procs :
      LET l == lk[p]
      IN  (l.stage = "rotation" /\ l.newPubkey # None /\ l.newPubkey = l.pubkey)
            => /\ l.pc = "done"
               /\ l.err = ErrSignatureMismatch
               /\ l.saves = 0
               /\ GetPubkey(l.host) = l.pubkey
               /\ store = l.store0

C11_Witness ==
    \E p \in Procs :
      /\ lk[p].pc = "done"
      /\ lk[p].stage = "rotation"
      /\ lk[p].newPubkey = lk[p].pubkey
      /\ lk[p].pubkey \in PubKeys
      /\ lk[p].cont
      /\ ~Verify(lk[p].pubkey, lk[p].data, lk[p].sig)
      /\ lk[p].err = ErrSignatureMismatch

Count(seq, x) == Cardinality({i \in 1..Len(seq) : seq[i] = x})

\* Steps a lookup at this position can still take before it returns.
Rank(l) ==
    CASE l.pc = "get_pubkey" -> 8 + 2 * (MaxPrevNames + 1)
      [] l.pc = "first_contact" -> 7 + 2 * (MaxPrevNames + 1)
      [] l.pc = "save" /\ l.stage = "first" -> 6 + 2 * (MaxPrevNames + 1)
      [] l.pc = "sweep" /\ l.stage = "first" -> 5 + MaxPrevNames + 1 + Len(l.sweep)
      [] l.pc = "fetch" -> 4 + MaxPrevNames + 1
      [] l.pc = "rotation" -> 3 + MaxPrevNames + 1
      [] l.pc = "save" /\ l.stage # "first" -> 2 + MaxPrevNames + 1
      [] l.pc = "sweep" /\ l.stage # "first" -> 1 + Len(l.sweep)
      [] OTHER -> 0

C12_Bounded ==
    \A p \in Procs :
      LET l == lk[p]
      IN  /\ Count(l.reqs, "profile") <= 1
          /\ Count(l.reqs, "server") <= 1
          /\ l.saves <= 1
          /\ l.stage = "rotation" => ~l.pubkeySaved
          /\ (l.pc = "done" /\ l.pubkeySaved /\ l.sig # NoSig
                /\ ~Verify(l.pubkey, l.data, l.sig))
               => l.err = ErrSignatureMismatch /\ l.reqs = <<"server", "profile">>

C12_Progress ==
    \A p \in Procs :
      lk[p].pc \notin {"idle", "done"} => Rank(lk'[p]) < Rank(lk[p])

\* C12: a lookup returns after a bounded number of steps (every step of a
\* running lookup lowers Rank), issues at most one profile GET, at most one
\* server-info GET and at most one SavePubkey, never enters the rotation
\* ceremony after first contact, and answers a profile mismatch right after
\* first contact with ErrSignatureMismatch and no second server-info GET.
C12_LookupTerminates == [](C12_Bounded) /\ [][C12_Progress]_vars

C12_Witness ==
    \E p \in Procs :
      /\ lk[p].pc = "done"
      /\ lk[p].pubkeySaved
      /\ lk[p].reqs = <<"server", "profile">>
      /\ ~Verify(lk[p].pubkey, lk[p].data, lk[p].sig)
      /\ lk[p].err = ErrSignatureMismatch

\* C13 as stated: on first contact the key is written under the
\* server_name the server-info document declares.
C13_SavedUnderServerName ==
    \A p \in Procs :
      (lk[p].pc = "sweep" /\ lk[p].stage = "first")
        => lk[p].serverName = lk[p].host

\* C13: on first contact SavePubkey installs the declared key under the
\* host of the profile URL, whatever server_name the document declares, and
\* by its return every previous name but that host has no mapping.
C13_SavedUnderHost ==
    \A p \in Procs :
      LET l == lk[p]
      IN  (l.pc = "sweep" /\ l.stage = "first") =>
            /\ l.sweep = l.names =>
                  /\ GetPubkey(l.host) = l.pubkey
                  /\ \A h \in Hosts \ {l.host} : GetPubkey(h) = l.store0[h]
            /\ l.sweep = << >> =>
                  \A i \in 1..Len(l.names) : GetPubkey(l.names[i]) = None

C13_Witness ==
    \E p \in Procs :
      /\ lk[p].pc = "sweep"
      /\ lk[p].stage = "first"
      /\ lk[p].sweep = << >>
      /\ lk[p].serverName # lk[p].host
      /\ Len(lk[p].names) > 0
      /\ lk[p].store0[lk[p].names[1]] # None
      /\ lk[p].host \notin Range(lk[p].names)
      /\ GetPubkey(lk[p].host) = lk[p].pubkey

\* C14: the WebFinger variants are the same routine as their resolving
\* counterparts: once the profile body has verified, a lookup with all set
\* ends as json.Unmarshal into a pointer to the map ends (LookupAll), and a
\* lookup without all as json.Unmarshal into a pointer to a Descriptor ends,
\* whichever of the six operations started it.
C14_WrappersAgree ==
    \A p \in Procs :
      LET l == lk[p]
          r == Unmarshal(l.data, IF l.all THEN "*map" ELSE "*Descriptor")
      IN  (l.pc = "done" /\ Verify(l.pubkey, l.data, l.sig))
            => l.err = r.err /\ l.dest = r.dest

(***************************************************************************)
(* The server side: the profile handler, the server-info handler and the   *)
(* WebFinger handler of one server.  srv holds the handlers' configuration *)
(* and the response to the last request; each action is one ServeHTTP      *)
(* call, from the request to the last byte written.                        *)
(*                                                                         *)
(* A response is what the peer sees: "200 OK" with headers and body,      *)
(* "500 Internal Server Error" written by http.Error, "sink" when the      *)
(* configured ErrorHandler was called (what it writes is the               *)
(* application's business), or "panic" when ServeHTTP panicked and the     *)
(* connection was dropped.                                                 *)
(***************************************************************************)
NilKey == "nil key"                \* a nil ed25519.PrivateKey
ErrDescriptorNotFound == "descriptor not found"
ErrMarshal == "json: error calling MarshalJSON"
ErrWrite == "write: broken pipe"

NoResponse ==
    [handler |-> "none", status |-> "none", sigStr |-> NoHeader,
     prevStrs |-> << >>, body |-> NoData, err |-> Nil]

\* A nil *webfinger.Descriptor.
NilDescriptor == [aliases |-> None, links |-> None, properties |-> None]

NoLookup == [desc |-> NilDescriptor, err |-> Nil]

\* What the file at a path holds: a PEM-encoded private key, or something
\* LoadPrivateKey cannot read or parse.
BadKeyFile == "not a key file"
KeyFiles == PrivKeys \cup {BadKeyFile}
ErrKeyFile == "invalid private key file"

\* LoadPrivateKey(path)
LoadPrivateKey(path) ==
    IF path \in PrivKeys THEN [key |-> path, err |-> Nil]
    ELSE [key |-> NilKey, err |-> ErrKeyFile]

\* LoadPrivateKeys(paths...): out := make([]ed25519.PrivateKey, len(paths));
\* a path that fails to load hits continue and leaves out[i] nil.
LoadPrivateKeys(paths) ==
    [i \in 1..Len(paths) |->
        IF LoadPrivateKey(paths[i]).err # Nil THEN NilKey
        ELSE LoadPrivateKey(paths[i]).key]

\* A server as the application set it up: PreviousKeys is what
\* LoadPrivateKeys returned for the configured paths.
Servers ==
    {[pc |-> "ready", PrivateKey |-> sk, PublicKey |-> pk,
      paths |-> paths,
      PreviousKeys |-> LoadPrivateKeys(paths),
      ServerName |-> "a.example",
      ErrorHandler |-> eh,          \* TRUE: the ErrorHandler field is set
      res |-> NoResponse,
      resolved |-> NilDescriptor,   \* what DescriptorFunc returned last
      got |-> NoLookup] :           \* what webfinger.Lookup returned last
        sk \in PrivKeys, pk \in PubKeys, eh \in BOOLEAN,
        paths \in SeqUpTo(KeyFiles, MaxPrevKeys)}

InitServer ==
    /\ InitClient
    /\ srv \in Servers
    /\ lib = NoCall

\* ServeHTTP panicked: net/http recovers and closes the connection.
Panicked(handler) == [NoResponse EXCEPT !.handler = handler, !.status = "panic"]

\* h.ErrorHandler(err, res) where the field may be nil: calling a nil func
\* panics.
CallErrorHandler(handler, errorHandler, err) ==
    IF errorHandler
    THEN [NoResponse EXCEPT !.handler = handler, !.status = "sink", !.err = err]
    ELSE Panicked(handler)

\* http.Error(res, err.Error(), http.StatusInternalServerError)
DefaultErrorHandler(handler, err) ==
    [NoResponse EXCEPT !.handler = handler,
                       !.status = "500 Internal Server Error", !.err = err]

\* sig := ed25519.Sign(key, data); Header().Set("X-ProfileFed-Sig", base64);
\* res.Write(data).
SignedResponseOther(handler, key, prevStrs, data) ==
    [handler |-> handler, status |-> "200 OK",
     sigStr |-> EncodeToString(Sign(key, OtherBody)),
     prevStrs |-> prevStrs, body |-> data, err |-> Nil]
SignedResponse(handler, key, prevStrs, data) ==
    [handler |-> handler, status |-> "200 OK",
     sigStr |-> EncodeToString(Sign(key, data)),
     prevStrs |-> prevStrs, body |-> data, err |-> Nil]

\* What the hooks of the profile handler return: an error, a value
\* json.Marshal rejects, or descriptor data with some role.
HookResults ==
    {[err |-> ErrDescriptorNotFound, marshals |-> FALSE, role |-> ""]}
      \cup [err : {Nil}, marshals : BOOLEAN, role : Roles]

\* json.Marshal(descriptors) / json.Marshal(descriptor)
MarshalProfile(all, hook) ==
    [kind |-> IF all THEN "map" ELSE "desc", role |-> hook.role]

\* Handler.ServeHTTP
ServeProfile ==
    /\ srv.pc = "ready"
    /\ \E all \in BOOLEAN, hook \in HookResults, written \in BOOLEAN :
         srv' = [srv EXCEPT !.pc = "answered", !.resolved = NilDescriptor, !.got = NoLookup, !.res =
           IF hook.err # Nil
           THEN CallErrorHandler("profile", srv.ErrorHandler, hook.err)
           ELSE IF ~hook.marshals
           THEN CallErrorHandler("profile", srv.ErrorHandler, ErrMarshal)
           ELSE IF ~written
           THEN CallErrorHandler("profile", srv.ErrorHandler, ErrWrite)
           ELSE SignedResponse("profile", srv.PrivateKey, << >>,
                               MarshalProfile(all, hook))]
    /\ UNCHANGED <<store, lk, lastOk, sv, rd, lib>>

\* json.Marshal(serverInfoData{...}): a struct of strings always marshals.
MarshalInfo(serverName, publicKey) ==
    [kind |-> "info", role |-> "", server_name |-> serverName,
     pubkey |-> EncodeToString(publicKey)]

\* for _, key := range sih.PreviousKeys { Header().Add(...Sign(key, data)) }
PreviousHeadersSet(previousKeys, data) ==
    IF previousKeys = << >> THEN << >>
    ELSE <<EncodeToString(Sign(previousKeys[Len(previousKeys)], data))>>
RECURSIVE PreviousHeaders(_, _)
PreviousHeaders(previousKeys, data) ==
    IF previousKeys = << >> THEN << >>
    ELSE <<EncodeToString(Sign(Head(previousKeys), data))>>
           \o PreviousHeaders(Tail(previousKeys), data)

\* ServerInfoHandler.ServeHTTP.  ed25519.Sign panics on a key that is not
\* 64 bytes long, as a nil entry of PreviousKeys is.
ServeServerInfo ==
    /\ srv.pc = "ready"
    /\ \E written \in BOOLEAN :
         LET data == MarshalInfo(srv.ServerName, srv.PublicKey)
         IN  srv' = [srv EXCEPT !.pc = "answered", !.resolved = NilDescriptor, !.got = NoLookup, !.res =
               IF NilKey \in Range(srv.PreviousKeys)
               THEN Panicked("server")
               ELSE IF ~written
               THEN CallErrorHandler("server", srv.ErrorHandler, ErrWrite)
               ELSE SignedResponse("server", srv.PrivateKey,
                                   PreviousHeaders(srv.PreviousKeys, data), data)]
    /\ UNCHANGED <<store, lk, lastOk, sv, rd, lib>>

(***************************************************************************)
(* WebFinger: a descriptor as Go holds it (a slice or map field is nil,    *)
(* empty or filled), its JSON as json.Marshal writes it with the struct    *)
(* tags of webfinger.Descriptor (properties is omitempty, aliases and      *)
(* links are not), and what json.Decode makes of that JSON.                *)
(***************************************************************************)
FieldValues == {"nil", "empty", "filled"}
Descriptors == [aliases : FieldValues, links : FieldValues, properties : FieldValues]

MarshalField(v) ==
    CASE v = "nil" -> "null" [] v = "empty" -> "[]" [] v = "filled" -> "[...]"
MarshalNoOmit(v) ==
    CASE v = "nil" -> "null" [] v = "empty" -> "{}" [] v = "filled" -> "{...}"
MarshalOmitEmpty(v) == IF v = "filled" THEN "{...}" ELSE "absent"

MarshalDescriptor(d) ==
    [kind |-> "jrd", aliases |-> MarshalField(d.aliases),
     links |-> MarshalField(d.links),
     properties |-> MarshalOmitEmpty(d.properties)]

DecodeField(j) ==
    CASE j \in {"null", "absent"} -> "nil"
      [] j \in {"[]", "{}"} -> "empty"
      [] OTHER -> "filled"

DecodeDescriptor(body) ==
    [aliases |-> DecodeField(body.aliases), links |-> DecodeField(body.links),
     properties |-> DecodeField(body.properties)]

\* url.QueryEscape on the way out, req.URL.Query().Get on the way in.
Resources == {"acct:user@a.example", "http://a.example/resource/1"}
QueryEscape(resource) == <<"escaped", resource>>
QueryGet(query) == query[2]

ErrLookup == "descriptor lookup failed"

\* What DescriptorFunc returns for a resource.
Resolutions == [err : {ErrLookup}, desc : {NilDescriptor}] \cup [err : {Nil}, desc : Descriptors]

\* webfinger.Handler.ServeHTTP: the response.
WebFingerResponse(errorHandler, resolution, written) ==
    LET sink(err) == IF errorHandler
                     THEN CallErrorHandler("webfinger", TRUE, err)
                     ELSE DefaultErrorHandler("webfinger", err)
    IN  IF resolution.err # Nil THEN sink(resolution.err)
        ELSE IF ~written THEN sink(ErrWrite)
        ELSE [NoResponse EXCEPT !.handler = "webfinger", !.status = "200 OK",
                                !.body = MarshalDescriptor(resolution.desc)]

\* A request to the WebFinger endpoint from any client.
ServeWebFinger ==
    /\ srv.pc = "ready"
    /\ \E resource \in Resources, resolution \in Resolutions, written \in BOOLEAN :
         srv' = [srv EXCEPT
                   !.pc = "answered",
                   !.res = WebFingerResponse(srv.ErrorHandler, resolution, written),
                   !.resolved = resolution.desc,
                   !.got = NoLookup]
    /\ UNCHANGED <<store, lk, lastOk, sv, rd, lib>>

\* The tail of webfinger.Lookup: status check and json Decode.
LookupResultNoStatusCheck(res) ==
    IF res.status = "200 OK"
    THEN {[desc |-> DecodeDescriptor(res.body), err |-> Nil]}
    ELSE IF res.status = "panic"
    THEN {[desc |-> NilDescriptor, err |-> ErrTransport]}
    ELSE {[desc |-> NilDescriptor, err |-> ErrJSON]}
LookupResult(res) ==
    IF res.status = "200 OK"
    THEN {[desc |-> DecodeDescriptor(res.body), err |-> Nil]}
    ELSE IF res.status = "500 Internal Server Error"
    THEN {[desc |-> NilDescriptor, err |-> res.status]}
    ELSE IF res.status = "panic"
    THEN {[desc |-> NilDescriptor, err |-> ErrTransport]}
    ELSE {[desc |-> NilDescriptor, err |-> e] : e \in {ErrStatus, ErrJSON}}

\* webfinger.Lookup(resource, server) against this server's handler: the
\* GET, the handler's run, and the decoding of its answer.
WebFingerLookup ==
    /\ srv.pc = "ready"
    /\ \E resource \in Resources, resolution \in Resolutions, written \in BOOLEAN :
         LET asked == QueryGet(QueryEscape(resource))
             res == WebFingerResponse(srv.ErrorHandler, resolution, written)
         IN  /\ asked = resource
             /\ \E result \in LookupResult(res) :
                  srv' = [srv EXCEPT !.pc = "answered", !.res = res,
                                     !.resolved = resolution.desc,
                                     !.got = result]
    /\ UNCHANGED <<store, lk, lastOk, sv, rd, lib>>

\* The exchange is over; the server waits for the next request.
NextRequest ==
    /\ srv.pc = "answered"
    /\ srv' = [srv EXCEPT !.pc = "ready", !.res = NoResponse,
                          !.resolved = NilDescriptor, !.got = NoLookup]
    /\ UNCHANGED <<store, lk, lastOk, sv, rd, lib>>

NextServer ==
    \/ ServeProfile \/ ServeServerInfo \/ ServeWebFinger \/ WebFingerLookup
    \/ NextRequest

SpecServer == InitServer /\ [][NextServer]_vars

(***************************************************************************)
(* Properties of the handlers (specification SpecServer).                  *)
(***************************************************************************)
\* C15: every 200 response of the profile handler and of the server-info
\* handler carries in X-ProfileFed-Sig a signature by the handler's private
\* key over exactly the bytes written as the body, on the all=1 path and on
\* the single-descriptor path.
C15_BodyIsWhatWasSigned ==
    (srv.pc = "answered" /\ srv.res.status = "200 OK"
       /\ srv.res.handler \in {"profile", "server"})
    => /\ getSignature(srv.res.sigStr).err = Nil
       /\ Verify(Pub(srv.PrivateKey), srv.res.body,
                 getSignature(srv.res.sigStr).sig)

C15_Witness ==
    /\ srv.pc = "answered"
    /\ srv.res.status = "200 OK"
    /\ srv.res.handler = "profile"
    /\ srv.res.body.kind = "map"
    /\ srv.PublicKey # Pub(srv.PrivateKey)

\* C16: a 200 server-info response carries one X-ProfileFed-Previous value
\* per entry of PreviousKeys, in that order, each the base64 of that key's
\* signature over the body, and an X-ProfileFed-Sig by the current key; so
\* the continuity check passes for the public key of every previous key.
C16_PreviousHeaders ==
    (srv.pc = "answered" /\ srv.res.status = "200 OK" /\ srv.res.handler = "server")
    => LET sigs == getPrevSignatures(srv.res.prevStrs)
       IN  /\ Len(srv.res.prevStrs) = Len(srv.PreviousKeys)
           /\ \A i \in 1..Len(srv.PreviousKeys) :
                 srv.res.prevStrs[i] =
                   EncodeToString(Sign(srv.PreviousKeys[i], srv.res.body))
           /\ Verify(Pub(srv.PrivateKey), srv.res.body,
                     getSignature(srv.res.sigStr).sig)
           /\ \A i \in 1..Len(srv.PreviousKeys) :
                 \E j \in 1..Len(sigs) :
                   Verify(Pub(srv.PreviousKeys[i]), srv.res.body, sigs[j])

C16_Witness ==
    /\ srv.pc = "answered"
    /\ srv.res.status = "200 OK"
    /\ srv.res.handler = "server"
    /\ Len(srv.PreviousKeys) = 2
    /\ srv.PreviousKeys[1] # srv.PreviousKeys[2]
    /\ Len(srv.res.prevStrs) = 2

\* C17: with ErrorHandler unset, a handler that meets a hook,
\* serialization or write error answers 500 Internal Server Error with the
\* error's message through a default sink; no handler ends otherwise.
C17_DefaultSink ==
    (srv.pc = "answered" /\ ~srv.ErrorHandler /\ NilKey \notin Range(srv.PreviousKeys))
    => /\ srv.res.status \in {"none", "200 OK", "500 Internal Server Error"}
       /\ srv.res.status = "500 Internal Server Error" => srv.res.err # Nil

\* C20 as stated: webfinger.Lookup against the handler returns a
\* descriptor equal to the one DescriptorFunc resolved, nil, empty and
\* filled fields alike.
C20_RoundTrip ==
    (srv.pc = "answered" /\ srv.got.err = Nil /\ srv.got.desc # NilDescriptor)
    => srv.got.desc = srv.resolved

\* C20: webfinger.Lookup against the handler returns the descriptor that
\* DescriptorFunc resolved, except that an empty properties map, which is
\* left out of the JSON, comes back as a nil map; aliases and links come
\* back nil, empty or filled as they were.
C20_RoundTripAmended ==
    (srv.pc = "answered" /\ srv.got.err = Nil /\ srv.got.desc # NilDescriptor)
    => /\ srv.resolved # NilDescriptor
       /\ srv.got.desc.aliases = srv.resolved.aliases
       /\ srv.got.desc.links = srv.resolved.links
       /\ srv.got.desc.properties =
            IF srv.resolved.properties = "empty" THEN "nil"
            ELSE srv.resolved.properties

C20_Witness ==
    /\ srv.pc = "answered"
    /\ srv.got.err = Nil
    /\ srv.resolved # NilDescriptor
    /\ srv.resolved.aliases = "empty"
    /\ srv.resolved.links = "nil"
    /\ srv.resolved.properties = "empty"
    /\ srv.got.desc.properties = "nil"
    /\ srv.got.desc.aliases = "empty"


-----------------------------------------------------------------------------
\* Library functions that touch neither the store nor a handler:
\* webfinger.LookupAcct and Descriptor.AddExtra.  Strings are sequences of
\* tokens, so that cutting at a separator is computed and not assumed; the
\* token "acct:" stands for the five characters of the scheme prefix.

MaxIdLen == 4
MaxExtras == 3
MaxNamespaces == 2

AcctChars == {"acct:", "u", "@"}
AcctIds == SeqUpTo(AcctChars, MaxIdLen)

ErrInvalidAcct == "invalid acct id"

\* strings.Index: position of the first occurrence, 0 when there is none.
Index(s, sep) ==
    IF sep \in Range(s)
    THEN CHOOSE i \in 1..Len(s) :
            s[i] = sep /\ \A j \in 1..(i - 1) : s[j] # sep
    ELSE 0

\* strings.Cut: slices s around the first occurrence of sep.
Cut(s, sep) ==
    LET i == Index(s, sep)
    IN  IF i = 0
        THEN [before |-> s, after |-> <<>>, found |-> FALSE]
        ELSE [before |-> SubSeq(s, 1, i - 1),
              after |-> SubSeq(s, i + 1, Len(s)),
              found |-> TRUE]

HasPrefix(s, prefix) == Len(s) >= 1 /\ s[1] = prefix

\* webfinger.LookupAcct(id), up to the request webfinger.Lookup sends.
LookupAcct ==
    /\ lib.pc = "none"
    /\ \E id \in AcctIds, outcome \in {Nil, ErrTransport} :
          LET cut == Cut(id, "@")
          IN  lib' = IF ~cut.found
                     THEN [pc |-> "acct", id |-> id, requested |-> FALSE,
                           resource |-> <<>>, server |-> <<>>,
                           err |-> ErrInvalidAcct]
                     ELSE [pc |-> "acct", id |-> id, requested |-> TRUE,
                           resource |-> IF HasPrefix(id, "acct:") THEN id
                                        ELSE <<"acct:">> \o id,
                           server |-> cut.after,
                           err |-> outcome]
    /\ UNCHANGED <<store, lk, lastOk, sv, rd, srv>>

LookupAcctReturn ==
    /\ lib.pc = "acct"
    /\ lib' = NoCall
    /\ UNCHANGED <<store, lk, lastOk, sv, rd, srv>>

NsUrls == {"ns1", "ns2"}
Fragments == {"f1", "f2"}
\* A namespace argument: a URL, with or without "#" and a fragment.
NamespaceStrings ==
    {<<u>> : u \in NsUrls} \cup {<<u, "#", f>> : u \in NsUrls, f \in Fragments}
ExtraTypes == {"t1"}
\* data any: a value json.Marshal accepts, or one it rejects.
ExtraData == {"value", "unsupported"}

MarshalData(data) ==
    IF data = "unsupported" THEN [msg |-> None, err |-> ErrMarshal]
    ELSE [msg |-> <<"json", data>>, err |-> Nil]

\* A descriptor as the application built it, before any AddExtra.
NewDescriptors ==
    [pc : {"desc"},
     start : SeqUpTo({<<u>> : u \in NsUrls}, MaxNamespaces),
     Namespaces : SeqUpTo({<<u>> : u \in NsUrls}, MaxNamespaces),
     Extra : {<<>>}, calls : {<<>>}, err : {Nil}]

ContainsNever(s, e) == FALSE
\* slices.Contains
Contains(s, e) == e \in Range(s)

\* (d *Descriptor).AddExtra(namespace, etype, data)
AddExtra ==
    /\ lib.pc = "desc"
    /\ Len(lib.calls) < MaxExtras
    /\ \E namespace \in NamespaceStrings, etype \in ExtraTypes,
          data \in ExtraData :
          LET urlStr == Cut(namespace, "#").before
              namespaces == IF ~Contains(lib.Namespaces, urlStr)
                            THEN Append(lib.Namespaces, urlStr)
                            ELSE lib.Namespaces
              m == MarshalData(data)
              call == [namespace |-> namespace, etype |-> etype,
                       err |-> m.err]
          IN  lib' = IF m.err # Nil
                     THEN [lib EXCEPT !.Namespaces = namespaces,
                                      !.calls = Append(@, call),
                                      !.err = m.err]
                     ELSE [lib EXCEPT !.Namespaces = namespaces,
                                      !.Extra = Append(@,
                                          [Namespace |-> namespace,
                                           Type |-> etype,
                                           Data |-> m.msg]),
                                      !.calls = Append(@, call),
                                      !.err = Nil]
    /\ UNCHANGED <<store, lk, lastOk, sv, rd, srv>>

InitLib ==
    /\ InitClient
    /\ srv = NoServer
    /\ \/ lib = NoCall
       \/ /\ lib \in NewDescriptors
          /\ lib.start = lib.Namespaces

NextLib == LookupAcct \/ LookupAcctReturn \/ AddExtra

SpecLib == InitLib /\ [][NextLib]_vars

-----------------------------------------------------------------------------

\* strings.LastIndex, as the statement of C18 reads the split.
LastAt(s) ==
    CHOOSE i \in 1..Len(s) : s[i] = "@" /\ \A j \in (i + 1)..Len(s) : s[j] # "@"

\* C18: LookupAcct(id) queries the server that follows the last '@' of id;
\* an id without '@' fails with "invalid acct id" and sends no request; the
\* resource queried is id when it starts with "acct:", else "acct:" + id.
C18_SplitsOnLastAt ==
    lib.pc = "acct"
    => IF "@" \notin Range(lib.id)
       THEN lib.err = ErrInvalidAcct /\ ~lib.requested
       ELSE /\ lib.requested
            /\ lib.server = SubSeq(lib.id, LastAt(lib.id) + 1, Len(lib.id))
            /\ lib.resource = IF lib.id[1] = "acct:" THEN lib.id
                              ELSE <<"acct:">> \o lib.id

NoDuplicates(s) == \A i, j \in 1..Len(s) : s[i] = s[j] => i = j

\* C19: on a descriptor whose namespaces start without duplicates, after
\* any sequence of AddExtra calls every namespace URL passed, fragment
\* removed, occurs exactly once in namespaces, and the Extra entries are
\* the successful calls in call order, each with the namespace as passed,
\* fragment included.
C19_NamespaceOnce ==
    (lib.pc = "desc" /\ NoDuplicates(lib.start))
    => LET ok == SelectSeq(lib.calls, LAMBDA c : c.err = Nil)
       IN  /\ \A i \in 1..Len(lib.calls) :
                 Count(lib.Namespaces, <<lib.calls[i].namespace[1]>>) = 1
           /\ Len(lib.Extra) = Len(ok)
           /\ \A i \in 1..Len(ok) :
                 /\ lib.Extra[i].Namespace = ok[i].namespace
                 /\ lib.Extra[i].Type = ok[i].etype

C19_Witness ==
    /\ lib.pc = "desc"
    /\ lib.start = <<>>
    /\ Len(lib.calls) = 2
    /\ lib.calls[1].namespace = <<"ns1", "#", "f1">>
    /\ lib.calls[2].namespace = <<"ns1", "#", "f2">>
    /\ lib.Namespaces = << <<"ns1">> >>
    /\ Len(lib.Extra) = 2
    /\ lib.Extra[2].Namespace = <<"ns1", "#", "f2">>

(***************************************************************************)
(* WebFinger error propagation (specification SpecServer).  In a state     *)
(* answered by the WebFinger handler, resolved = NilDescriptor says that   *)
(* DescriptorFunc returned an error, and got # NoLookup that the request   *)
(* came from webfinger.Lookup, whose result is got.                        *)
(***************************************************************************)

LoadedKeys(paths) == SelectSeq(paths, LAMBDA path : path \in PrivKeys)

\* C22: LoadPrivateKeys returns exactly the keys of the paths that loaded,
\* in order, with no nil entry for a path that failed; a ServerInfoHandler
\* whose PreviousKeys is that result never signs with an invalid key.
C22_SkipsInvalidKeys ==
    /\ srv.PreviousKeys = LoadedKeys(srv.paths)
    /\ NilKey \notin Range(srv.PreviousKeys)
    /\ (srv.pc = "answered" /\ srv.res.handler = "server")
         => srv.res.status # "panic"

(***************************************************************************)
(* Concurrent lookups: the goroutines of Procs run lookups against one     *)
(* DefaultClient, their steps interleaved at every access to the store     *)
(* and every HTTP exchange.  The lookups are those of a descriptor of      *)
(* profiles on one host, a.example, whose server-info names no previous    *)
(* name; the server answers each request as it likes, and a lookup either  *)
(* succeeds or ends with a signature mismatch.                             *)
(***************************************************************************)
OneHost(l) ==
    /\ l.host \in {None, "a.example"}
    /\ l.dst = "*Descriptor"
    /\ l.names = << >>
    /\ l.unattested = {}
    /\ l.serverName \in {None, "a.example"}
    /\ l.data.kind \in {"nodata", "desc"}
    /\ l.data.role = ""
    /\ l.err \in {Nil, ErrSignatureMismatch}

NextConcurrent ==
    \E p \in Procs :
       \/ Lookup(p) /\ OneHost(lk[p])'
       \/ LookupID(p) /\ OneHost(lk[p])'
       \/ LookupWebFinger(p) /\ OneHost(lk[p])'
       \/ LookupWebFingerID(p) /\ OneHost(lk[p])'
       \/ GetHostPubkey(p) /\ OneHost(lk[p])'
       \/ FirstContact(p) /\ OneHost(lk[p])'
       \/ SaveStore(p) /\ OneHost(lk[p])'
       \/ SaveReturn(p) /\ OneHost(lk[p])'
       \/ FetchProfile(p) /\ OneHost(lk[p])'
       \/ Rotation(p) /\ OneHost(lk[p])'
       \/ Return(p) /\ OneHost(lk[p])'

SpecConcurrent == Init /\ [][NextConcurrent]_vars

\* C23: under any interleaving of lookups sharing one store, a key stored
\* for a name is replaced by a different key only by the SavePubkey of a
\* rotation ceremony whose continuity check succeeded against the key being
\* replaced; never by the SavePubkey of a first contact.
C23_ReplacedOnlyByRotation ==
    [][\A n \in Hosts :
          (store[n] # None /\ store'[n] # None /\ store'[n] # store[n])
          => \E p \in Procs :
                /\ lk[p].pc = "save" /\ lk'[p].pc = "sweep"
                /\ lk[p].stage = "rotation"
                /\ lk[p].cont
                /\ lk[p].pubkey = store[n]]_vars

(***************************************************************************)
(* Frame and ordering properties of one lookup (specification Spec).       *)
(***************************************************************************)

\* Until a lookup calls SavePubkey the store is as it was at the call, and
\* while SavePubkey runs every name other than the host and the previous
\* names of the server-info just fetched is mapped as it was at the call.
C24_Frame ==
    LET l == lk[1]
    IN  /\ (l.pc # "idle" /\ l.saves = 0) => store = l.store0
        /\ l.pc = "sweep"
             => \A n \in Hosts \ ({l.host} \cup Range(l.names)) :
                   store[n] = l.store0[n]

\* A step changes the store only inside SavePubkey, and only at the host of
\* the profile URL or at a previous name of the server-info just fetched.
C24_Step ==
    \A n \in Hosts :
       store'[n] # store[n]
       => /\ lk[1].pc \in {"save", "sweep"}
          /\ n = lk[1].host \/ n \in Range(lk[1].names)

\* C24: a lookup whose profile URL has host h changes the store only at h
\* and at the previous_names of the server-info it fetched from h; every
\* other name is mapped after the lookup as before it, on success and on
\* every error path.
C24_StoreFrame == [](C24_Frame) /\ [][C24_Step]_vars

C24_Witness ==
    /\ lk[1].pc = "sweep"
    /\ lk[1].sweep = << >>
    /\ lk[1].host = "a.example"
    /\ lk[1].names = <<"b.example">>
    /\ lk[1].store0["a.example"] = None
    /\ lk[1].store0["b.example"] # None
    /\ lk[1].store0["c.example"] # None
    /\ store["a.example"] # None
    /\ store["b.example"] = None
    /\ store["c.example"] = lk[1].store0["c.example"]

C26_RotationReactive ==
    LET l == lk[1]
    IN  (l.pc # "idle" /\ l.stage # "first")
        => /\ \A i \in 1..Len(l.reqs) :
                 l.reqs[i] = "server"
                 => /\ i = 2
                    /\ l.reqs[1] = "profile"
                    /\ l.data # NoData
                    /\ ~Verify(l.pubkey, l.data, l.sig)
           /\ (l.data # NoData /\ Verify(l.pubkey, l.data, l.sig))
                 => l.reqs = <<"profile">>

C26_Witness ==
    /\ lk[1].pc = "done"
    /\ lk[1].stage = "rotation"
    /\ lk[1].reqs = <<"profile", "server">>
    /\ lk[1].data # NoData
    /\ ~Verify(lk[1].pubkey, lk[1].data, lk[1].sig)

(***************************************************************************)
(* The X-ProfileFed-Previous headers of one server-info response, as the   *)
(* two places that use them read them: the rename audit of first contact   *)
(* against the keys stored for the previous names, and the continuity      *)
(* check of the rotation ceremony against the key stored for the host.     *)
(***************************************************************************)
MaxPrevHeaders == 3

\* verified := some sig of sigs verifies serverData under pubkey
Continuity(pubkey, serverData, sigs) ==
    \E i \in 1..Len(sigs) : Verify(pubkey, serverData, sigs[i])

\* A store that holds a key for one earlier name, or none.
InitPrevious ==
    /\ store \in {EmptyStore}
                   \cup {[EmptyStore EXCEPT !["b.example"] = pk] : pk \in PubKeys}
    /\ lk = [p \in Procs |-> Idle]
    /\ lastOk = NoLast
    /\ sv = IdleSaver
    /\ rd = IdleReader
    /\ srv = NoServer
    /\ lib = NoCall

\* One server-info response read by lookup: getPrevSignatures, then the
\* audit of previous_names and the continuity check under pubkey.
ReadPrevious ==
    /\ lib.pc = "none"
    /\ \E prevStrs \in SeqUpTo(PrevHeaders(InfoBody), MaxPrevHeaders),
          sig \in SigsOver(InfoBody), pubkey \in PubKeys,
          previousNames \in {<< >>, <<"b.example">>} :
          LET sigs == getPrevSignatures(prevStrs)
          IN  lib' = [pc |-> "previous", prevStrs |-> prevStrs, sig |-> sig,
                      pubkey |-> pubkey, previousNames |-> previousNames,
                      sigs |-> sigs,
                      audit |-> auditPreviousNames(previousNames, InfoBody,
                                                   sig, sigs),
                      verified |-> Continuity(pubkey, InfoBody, sigs)]
    /\ UNCHANGED <<store, lk, lastOk, sv, rd, srv>>

ReadPreviousReturn ==
    /\ lib.pc = "previous"
    /\ lib' = NoCall
    /\ UNCHANGED <<store, lk, lastOk, sv, rd, srv>>

NextPrevious == ReadPrevious \/ ReadPreviousReturn

SpecPrevious == InitPrevious /\ [][NextPrevious]_vars

\* The values of X-ProfileFed-Previous that are base64, decoded, in order.
DecodableOnly(sigStrs) ==
    LET kept == SelectSeq(sigStrs, LAMBDA s : DecodeOk(s))
    IN  [i \in 1..Len(kept) |-> DecodeString(kept[i])]

\* C27: an X-ProfileFed-Previous value that is not base64 is skipped: the
\* rename audit and the continuity check end as they do for the response
\* without the undecodable values, and a signature that verifies under the
\* stored key passes the continuity check wherever it stands among
\* undecodable values.
C27_InvalidPreviousSkipped ==
    lib.pc = "previous"
    => /\ lib.sigs = DecodableOnly(lib.prevStrs)
       /\ lib.audit = auditPreviousNames(lib.previousNames, InfoBody, lib.sig,
                                         DecodableOnly(lib.prevStrs))
       /\ lib.verified = Continuity(lib.pubkey, InfoBody,
                                    DecodableOnly(lib.prevStrs))
       /\ (\E i \in 1..Len(lib.prevStrs) :
              /\ DecodeOk(lib.prevStrs[i])
              /\ Verify(lib.pubkey, InfoBody, DecodeString(lib.prevStrs[i])))
            => lib.verified

C27_Witness ==
    /\ lib.pc = "previous"
    /\ Len(lib.prevStrs) = 3
    /\ ~DecodeOk(lib.prevStrs[1])
    /\ DecodeOk(lib.prevStrs[2])
    /\ ~DecodeOk(lib.prevStrs[3])
    /\ Verify(lib.pubkey, InfoBody, DecodeString(lib.prevStrs[2]))
    /\ lib.verified
    /\ Len(lib.sigs) = 1

\* C28: an AddExtra call that returns an error leaves the descriptor as it
\* was: neither namespaces nor extra has gained an element.
C28_AllOrNothing ==
    [][(lib.pc = "desc" /\ lib'.pc = "desc"
          /\ Len(lib'.calls) = Len(lib.calls) + 1 /\ lib'.err # Nil)
       => /\ lib'.Namespaces = lib.Namespaces
          /\ lib'.Extra = lib.Extra]_vars

=============================================================================
